---- MODULE Spec2Model ----
(***************************************************************************)
(* Secret Guard (src/app/secret_guard.py): the pattern registry, the       *)
(* matcher (contains_secret, redact), the folder scan with its update of   *)
(* .copilotignore and of secret_guard_scan.log, and the clipboard          *)
(* watchdog thread.                                                        *)
(*                                                                         *)
(* A text is a sequence of one-character strings, so that matching,        *)
(* stripping, splitting into lines and formatting are computed character   *)
(* by character, as the Python code computes them.                         *)
(***************************************************************************)
EXTENDS Integers, Sequences, FiniteSets, TLC

\* ------------------------------------------------------------ characters

Digit == {"0", "1", "2", "3", "4", "5", "6", "7", "8", "9"}

UpperSeq == <<"A", "B", "C", "D", "E", "F", "G", "H", "I", "J", "K", "L", "M", "N", "O", "P", "Q", "R", "S", "T", "U", "V", "W", "X", "Y", "Z">>

LowerSeq == <<"a", "b", "c", "d", "e", "f", "g", "h", "i", "j", "k", "l", "m", "n", "o", "p", "q", "r", "s", "t", "u", "v", "w", "x", "y", "z">>

Upper == {UpperSeq[k] : k \in DOMAIN UpperSeq}

Lower == {LowerSeq[k] : k \in DOMAIN LowerSeq}

Alnum == Digit \cup Upper \cup Lower

\* \w of the re module
WordChar == Alnum \cup {"_"}

\* \s of the re module, and the characters str.strip() removes
Space == {" ", "\t", "\n", "\r"}

\* re.I: letters compare by their lower-case form
Fold(c) == IF c \in Upper THEN LowerSeq[CHOOSE k \in DOMAIN UpperSeq : UpperSeq[k] = c] ELSE c

\* (the set is bound to a value once, whatever expression gives it)
Max(S) == CHOOSE x \in UNION {{m \in V : \A y \in V : y <= m} : V \in {S}} : TRUE

Min(S) == CHOOSE x \in UNION {{m \in V : \A y \in V : m <= y} : V \in {S}} : TRUE

Chars(t) == {t[k] : k \in DOMAIN t}

\* F applied to the value of x (x is evaluated once, whatever expression
\* gives it)
Bind(x, F(_)) == CHOOSE r \in {F(v) : v \in {x}} : TRUE

\* the literal lit stands in t at position i (ci: ignoring case)
LitAt(t, i, lit, ci) ==
    /\ i >= 1
    /\ i + Len(lit) - 1 <= Len(t)
    /\ \A k \in 1..Len(lit) :
          IF ci THEN Fold(t[i + k - 1]) = Fold(lit[k]) ELSE t[i + k - 1] = lit[k]

\* greedy [cls]{0,most} from position i: the position after the run
RunEnd(t, i, cls, most) ==
    Min({j \in i..(Len(t) + 1) :
            \/ j = Len(t) + 1
            \/ j - i >= most
            \/ t[j] \notin cls})

\* ------------------------------------------------- 1. the pattern registry
\* Each pattern is given by the position after its match at position i of t
\* (the match is t[i..e-1]); 0 when the pattern does not match at i.

\* AKIA[0-9A-Z]{16}
AwsEnd(t, i) ==
    IF LitAt(t, i, <<"A", "K", "I", "A">>, FALSE)
       /\ RunEnd(t, i + 4, Digit \cup Upper, 16) = i + 20
    THEN i + 20 ELSE 0

\* (?:a|b|...) at position i: the length of the first alternative of lits
\* that stands there, 0 when none does
AltLen(t, i, lits, ci) ==
    LET found == {k \in DOMAIN lits : LitAt(t, i, lits[k], ci)}
    IN  IF found = {} THEN 0 ELSE Len(lits[Min(found)])

\* (?:password|passwd|pwd)[\s:=]+.*   with re.I
PasswordEnd(t, i) ==
    Bind(AltLen(t, i, <<<<"p", "a", "s", "s", "w", "o", "r", "d">>, <<"p", "a", "s", "s", "w", "d">>, <<"p", "w", "d">>>>, TRUE),
         LAMBDA pre :
            IF pre = 0 THEN 0
            ELSE Bind(RunEnd(t, i + pre, Space \cup {":", "="}, Len(t)),
                      LAMBDA e :
                         IF e = i + pre THEN 0
                         ELSE RunEnd(t, e, Chars(t) \ {"\n"}, Len(t))))

\* (?:ssh-rsa|ssh-ed25519)[A-Za-z0-9+/]{50,}
SshEnd(t, i) ==
    Bind(AltLen(t, i, <<<<"s", "s", "h", "-", "r", "s", "a">>, <<"s", "s", "h", "-", "e", "d", "2", "5", "5", "1", "9">>>>, FALSE),
         LAMBDA pre :
            IF pre = 0 THEN 0
            ELSE Bind(RunEnd(t, i + pre, Alnum \cup {"+", "/"}, Len(t)),
                      LAMBDA e : IF e - (i + pre) < 50 THEN 0 ELSE e))

\* -----BEGIN (?:RSA|EC|DSA) PRIVATE KEY-----
PemEnd(t, i) ==
    LET head == <<"-", "-", "-", "-", "-", "B", "E", "G", "I", "N", " ">>
        tail == <<" ", "P", "R", "I", "V", "A", "T", "E", " ", "K", "E", "Y", "-", "-", "-", "-", "-">>
    IN  IF ~LitAt(t, i, head, FALSE) THEN 0
        ELSE Bind(AltLen(t, i + Len(head), <<<<"R", "S", "A">>, <<"E", "C">>, <<"D", "S", "A">>>>, FALSE),
                  LAMBDA alg :
                     IF alg > 0 /\ LitAt(t, i + Len(head) + alg, tail, FALSE)
                     THEN i + Len(head) + alg + Len(tail) ELSE 0)

\* xox[baprs]-[0-9A-Za-z-]{10,48}
SlackEnd(t, i) ==
    IF /\ LitAt(t, i, <<"x", "o", "x">>, FALSE)
       /\ i + 4 <= Len(t)
       /\ t[i + 3] \in {"b", "a", "p", "r", "s"}
       /\ t[i + 4] = "-"
    THEN Bind(RunEnd(t, i + 5, Alnum \cup {"-"}, 48),
              LAMBDA e : IF e - (i + 5) >= 10 THEN e ELSE 0)
    ELSE 0

\* \b: between positions i-1 and i of t exactly one side is a word character
Boundary(t, i) ==
    LET before == i > 1 /\ i - 1 <= Len(t) /\ t[i - 1] \in WordChar
        after == i >= 1 /\ i <= Len(t) /\ t[i] \in WordChar
    IN  before # after

\* \b[nz][a-z0-9]{6}\b   with re.I
IdEnd(t, i) ==
    IF /\ i >= 1
       /\ i + 6 <= Len(t)
       /\ Boundary(t, i)
       /\ Fold(t[i]) \in {"n", "z"}
       /\ \A k \in (i + 1)..(i + 6) : Fold(t[k]) \in Lower \cup Digit
       /\ Boundary(t, i + 7)
    THEN i + 7 ELSE 0

\* PATTERNS, in registry order
PATTERNS == <<"aws", "password", "ssh", "pem", "slack", "id">>

MatchEnd(p, t, i) ==
    CASE p = "aws" -> AwsEnd(t, i)
      [] p = "password" -> PasswordEnd(t, i)
      [] p = "ssh" -> SshEnd(t, i)
      [] p = "pem" -> PemEnd(t, i)
      [] p = "slack" -> SlackEnd(t, i)
      [] p = "id" -> IdEnd(t, i)

\* p.search(text): the pattern matches somewhere in t
Search(p, t) == \E i \in 1..Len(t) : MatchEnd(p, t, i) > 0

\* mutant of PLACEHOLDER: a placeholder that the last pattern matches
PLACEHOLDER_Matching == <<"<", "n", "1", "2", "3", "4", "5", "6", ">">>

PLACEHOLDER == <<"<", "R", "E", "D", "A", "C", "T", "E", "D", ">">>

\* the positions from i on at which p matches
MatchStarts(p, t, i) == {j \in i..Len(t) : MatchEnd(p, t, j) > 0}

\* p.sub("<REDACTED>", text), scanning from position i: every match, left to
\* right and not overlapping, becomes the placeholder
RECURSIVE SubFrom(_, _, _)
SubFrom(p, t, i) ==
    IF MatchStarts(p, t, i) = {} THEN SubSeq(t, i, Len(t))
    ELSE Bind(Min(MatchStarts(p, t, i)),
              LAMBDA j :
                 Bind(MatchEnd(p, t, j),
                      LAMBDA e : SubSeq(t, i, j - 1) \o PLACEHOLDER \o SubFrom(p, t, e)))

Sub(p, t) == SubFrom(p, t, 1)

\* ------------------------------------------------------------ 2. matcher

\* line 45: any(p.search(text) for p in PATTERNS)
contains_secret(text) ==
    \E t \in {text} : \E k \in DOMAIN PATTERNS : Search(PATTERNS[k], t)

\* mutant of RedactWith: the patterns are substituted in reverse registry
\* order
RECURSIVE RedactWith_Reversed(_, _)
RedactWith_Reversed(n, text) ==
    IF n = 0 THEN text
    ELSE Bind(RedactWith_Reversed(n - 1, text),
              LAMBDA t : Sub(PATTERNS[Len(PATTERNS) + 1 - n], t))

\* lines 49-50: the text after the first n patterns have been substituted,
\* in order, each in the text the one before it left
RECURSIVE RedactWith(_, _)
RedactWith(n, text) ==
    IF n = 0 THEN text
    ELSE Bind(RedactWith(n - 1, text), LAMBDA t : Sub(PATTERNS[n], t))

redact(text) == RedactWith(Len(PATTERNS), text)

\* ------------------------------------------------------- text operations

Range(s) == {s[k] : k \in DOMAIN s}

\* str.strip(): without the white space at both ends
strip(t) ==
    LET solid == {k \in DOMAIN t : t[k] \notin Space}
    IN  IF solid = {} THEN <<>> ELSE SubSeq(t, Min(solid), Max(solid))

\* the lines a text file yields when iterated: each with its "\n", but for
\* a last line that has none
Newlines(t) == {k \in DOMAIN t : t[k] = "\n"}

NumLines(t) ==
    Cardinality(Newlines(t)) + (IF Len(t) > 0 /\ t[Len(t)] # "\n" THEN 1 ELSE 0)

LineEnd(t, k) ==
    IF k <= Cardinality(Newlines(t))
    THEN CHOOSE j \in Newlines(t) : Cardinality({m \in Newlines(t) : m < j}) = k - 1
    ELSE Len(t)

LineStart(t, k) == IF k = 1 THEN 1 ELSE LineEnd(t, k - 1) + 1

Lines(t) == [k \in 1..NumLines(t) |-> SubSeq(t, LineStart(t, k), LineEnd(t, k))]

DigitSeq == <<"0", "1", "2", "3", "4", "5", "6", "7", "8", "9">>

\* str(n) of a natural number, as an f-string formats it
RECURSIVE Str(_)
Str(n) ==
    IF n < 10 THEN <<DigitSeq[n + 1]>>
    ELSE Str(n \div 10) \o <<DigitSeq[(n % 10) + 1]>>

\* a byte that is no valid UTF-8: open(..., errors="ignore") drops it
BAD == "\\xff"

Decode(bytes) == SelectSeq(bytes, LAMBDA c : c # BAD)

\* s.replace(a, b) for single characters
Replace(s, a, b) == [k \in DOMAIN s |-> IF s[k] = a THEN b ELSE s[k]]

\* ------------------------------------------------------- the file system
\* A path is the sequence of the names from the scanned folder down; a name
\* is a text.  tree[d] lists directory d in the order the operating system
\* returns its entries; files[p] is the file at path p:
\*   data    its bytes (line ends are "\n")
\*   pad     the number of further "\n" bytes after data (so that a file
\*           larger than MAX_SCAN_BYTES is a finite value: nothing but empty
\*           lines follows data)
\*   err     "none", or the call that raises OSError on this file: "stat"
\*           (os.path.getsize), "open", or "read" (reading line errline)

MAX_SCAN_BYTES == 1000000

\* os.sep of the platform the program is written for (Windows)
SEP == "\\"

IGNORE_NAME == <<".", "c", "o", "p", "i", "l", "o", "t", "i", "g", "n", "o", "r", "e">>

LOG_NAME == <<"s", "e", "c", "r", "e", "t", "_", "g", "u", "a", "r", "d", "_", "s", "c", "a", "n", ".", "l", "o", "g">>

File(data, pad, err, errline) ==
    [data |-> data, pad |-> pad, err |-> err, errline |-> errline]

Plain(data) == File(data, 0, "none", 0)

getsize(f) == Len(f.data) + f.pad

\* the text of an opened file: the decoded data; the padding only matters
\* in that it ends a last line of data that has no "\n" of its own
Content(f) == Decode(f.data) \o (IF f.pad > 0 THEN <<"\n">> ELSE <<>>)

\* os.path.join of the names of a path
RECURSIVE JoinPath(_)
JoinPath(path) ==
    IF Len(path) = 1 THEN path[1]
    ELSE path[1] \o <<SEP>> \o JoinPath(Tail(path))

\* os.path.relpath(path, folder).replace("\\", "/")
RelPath(path) == Replace(JoinPath(path), "\\", "/")

\* os.walk(folder), top-down: (root, dirnames, filenames) of a directory,
\* then the walk of each of its subdirectories in turn
RECURSIVE walk(_, _), walkSubdirs(_, _, _)
walk(tr, d) ==
    <<[root |-> d, dnames |-> tr[d].dnames, fnames |-> tr[d].fnames]>>
        \o walkSubdirs(tr, d, 1)

walkSubdirs(tr, d, k) ==
    IF k > Len(tr[d].dnames) THEN <<>>
    ELSE walk(tr, d \o <<tr[d].dnames[k]>>) \o walkSubdirs(tr, d, k + 1)

\* the paths the two loops of scan_project go through, in order
RECURSIVE WalkFiles(_)
WalkFiles(w) ==
    IF w = <<>> THEN <<>>
    ELSE [k \in DOMAIN w[1].fnames |-> w[1].root \o <<w[1].fnames[k]>>]
            \o WalkFiles(Tail(w))

\* the directory names app.py's walk prunes; the source names the set and
\* does not define it
EXCLUDE_DIRS == {<<".", "g", "i", "t">>}

\* ------------------------------------------------------------------ bounds

\* folder scans the user starts
MaxScans == 2

\* seconds the clock advances while the program runs
MaxClock == 1

\* texts the user copies to the clipboard
MaxCopies == 2

\* clipboard calls that raise
MaxFailures == 2

\* pieces a text on the clipboard is put together from
MaxPieces == 2

\* lines of the ignore file up to which another writer appends to it
MaxIgnoreLines == 3

\* ------------------------------------------------------------------- state

VARIABLES
    tree,         \* the scanned folder: directory path -> its listing
    files,        \* the scanned folder: file path -> file
    clock,        \* seconds of local time since the program started
    spc,          \* where scan_project stands: idle, walk, append, log
    todo,         \* the files the walk has still to visit
    hits,         \* scan_project's hits
    log_lines,    \* scan_project's log_lines
    new_entries,  \* scan_project's new_entries
    opened,       \* the paths the running scan has called open() on
    before,       \* the files as they were when the running scan started
    report,       \* the last message box shown
    scans,        \* the scans started so far
    clipboard,    \* the text on the system clipboard
    mpc,          \* where clipboard_loop stands
    clip,         \* clipboard_loop's clip
    last,         \* clipboard_loop's last: {} for None, else {text}
    stop_evt,     \* the threading.Event that quit_app sets
    toasts,       \* the notifications shown
    stderr,       \* the "[Clipboard] error:" lines printed
    copies,       \* the texts the user has copied so far
    failures      \* the clipboard calls that have raised so far

scan_vars ==
    <<tree, files, clock, spc, todo, hits, log_lines, new_entries, opened,
      before, report, scans>>

mon_vars ==
    <<clipboard, mpc, clip, last, stop_evt, toasts, stderr, copies, failures>>

vars ==
    <<tree, files, clock, spc, todo, hits, log_lines, new_entries, opened,
      before, report, scans,
      clipboard, mpc, clip, last, stop_evt, toasts, stderr, copies, failures>>

\* ------------------------------------------------- 3. scan_project, per file

\* mutant of SizeExceeds: the comparison of line 84 written >=
SizeExceeds_Inclusive(f) == getsize(f) >= MAX_SCAN_BYTES

\* line 84: the file is larger than the limit
SizeExceeds(f) == getsize(f) > MAX_SCAN_BYTES

\* lines 84-85: the loop goes on to the next file without opening this one,
\* because getsize raised or the file is too large
SkippedUnopened(f) == f.err = "stat" \/ SizeExceeds(f)

\* the number of lines the loop of line 87 gets before OSError ends it
LinesRead(f) ==
    IF f.err = "open" THEN 0
    ELSE IF f.err = "read" THEN Min({f.errline - 1, NumLines(Content(f))})
    ELSE NumLines(Content(f))

\* lines 87-93: the number of the first line read that contains a secret,
\* 0 when there is none (the loop breaks at the first hit)
FirstHit(f) ==
    LET hitlines == {k \in 1..LinesRead(f) : contains_secret(Lines(Content(f))[k])}
    IN  IF SkippedUnopened(f) \/ hitlines = {} THEN 0 ELSE Min(hitlines)

\* line 90: line.strip()[:120]
Snippet(line) == SubSeq(strip(line), 1, Min({120, Len(strip(line))}))

\* line 91: f"{rel}:{lineno}: {snippet}"
FindingLine(rel, lineno, line) ==
    rel \o <<":">> \o Str(lineno) \o <<":", " ">> \o Snippet(line)

\* ------------------------------------------- 3. scan_project, .copilotignore

ignore_path == <<IGNORE_NAME>>

log_path == <<LOG_NAME>>

\* lines 103-106: the stripped non-blank lines of the ignore file
Existing(fl) ==
    IF ignore_path \in DOMAIN fl
    THEN {strip(ln) : ln \in Range(Lines(fl[ignore_path].data))} \ {<<>>}
    ELSE {}

\* lines 104-106 raise: the ignore file exists and its open or its read
\* fails with OSError, or it holds a byte that is no UTF-8 (this open has
\* no errors="ignore"); no try encloses these lines
IgnoreRaises(fl) ==
    /\ ignore_path \in DOMAIN fl
    /\ \/ fl[ignore_path].err \in {"open", "read"}
       \/ BAD \in Range(fl[ignore_path].data)

\* line 107
NewEntries(hs, existing) == SelectSeq(hs, LAMBDA h : h \notin existing)

\* lines 110-111 and 118-119: each entry followed by "\n"
RECURSIVE WriteLines(_)
WriteLines(entries) ==
    IF entries = <<>> THEN <<>>
    ELSE entries[1] \o <<"\n">> \o WriteLines(Tail(entries))

\* open(path, "a") and write: the file is created when absent, and the text
\* goes after what the file holds
AppendTo(fl, path, text) ==
    IF path \in DOMAIN fl
    THEN [fl EXCEPT ![path].data = @ \o text]
    ELSE (path :> Plain(text)) @@ fl

\* a file created in the scanned folder shows in the folder's listing
Listed(tr, fl, path) ==
    IF path \in DOMAIN fl THEN tr
    ELSE [tr EXCEPT ![<<>>].fnames = Append(@, path[1])]

\* line 115: time.strftime("%Y-%m-%d %H:%M:%S"); the program starts at
\* 15:42:10 of the day of the docstring's example
strftime(c) ==
    <<"2", "0", "2", "5", "-", "0", "7", "-", "1", "5", " ", "1", "5", ":", "4", "2", ":">> \o Str((10 + c) \div 10) \o Str((10 + c) % 10)

\* line 117
Header(c) == <<"-", "-", "-", " ", "S", "c", "a", "n", " ">> \o strftime(c) \o <<" ", "-", "-", "-">>

NoReport == [kind |-> "nothing", lines |-> 0, files |-> 0, added |-> 0]

\* ------------------------------------------------- 3. scan_project, actions

\* lines 129-134 and 77-80: the user picks the folder and the scan starts
choose_folder_and_scan ==
    /\ spc = "idle"
    /\ scans < MaxScans
    /\ scans' = scans + 1
    /\ spc' = "walk"
    /\ todo' = WalkFiles(walk(tree, <<>>))
    /\ hits' = <<>>
    /\ log_lines' = <<>>
    /\ new_entries' = <<>>
    /\ opened' = {}
    /\ before' = files
    /\ report' = NoReport
    /\ UNCHANGED <<tree, files, clock>>
    /\ UNCHANGED mon_vars

\* lines 81-95: one turn of the inner loop
ScanFile ==
    /\ spc = "walk"
    /\ todo # <<>>
    /\ LET path == Head(todo)
           f == files[path]
           k == FirstHit(f)
           rel == RelPath(path)
       IN  /\ opened' = IF SkippedUnopened(f) THEN opened ELSE opened \cup {path}
           /\ hits' = IF k > 0 THEN Append(hits, rel) ELSE hits
           /\ log_lines' =
                 IF k > 0
                 THEN Append(log_lines, FindingLine(rel, k, Lines(Content(f))[k]))
                 ELSE log_lines
    /\ todo' = Tail(todo)
    /\ UNCHANGED <<tree, files, clock, spc, new_entries, before, report, scans>>
    /\ UNCHANGED mon_vars

\* mutant of ShowNoSecrets: the return of line 99 is missing, and the scan
\* goes on to write its (empty) block to the log
ShowNoSecrets_NoReturn ==
    /\ spc = "walk"
    /\ todo = <<>>
    /\ hits = <<>>
    /\ report' = [NoReport EXCEPT !.kind = "No secrets found"]
    /\ files' = AppendTo(files, log_path, WriteLines(<<Header(clock)>> \o log_lines))
    /\ tree' = Listed(tree, files, log_path)
    /\ spc' = "idle"
    /\ UNCHANGED <<clock, todo, hits, log_lines, new_entries, opened, before, scans>>
    /\ UNCHANGED mon_vars

\* lines 97-99
ShowNoSecrets ==
    /\ spc = "walk"
    /\ todo = <<>>
    /\ hits = <<>>
    /\ report' = [NoReport EXCEPT !.kind = "No secrets found"]
    /\ spc' = "idle"
    /\ UNCHANGED <<tree, files, clock, todo, hits, log_lines, new_entries,
                   opened, before, scans>>
    /\ UNCHANGED mon_vars

\* lines 102-106: reading the ignore file raises, and the exception leaves
\* scan_project: no file is written and no message box is shown
ReadIgnoreRaises ==
    /\ spc = "walk"
    /\ todo = <<>>
    /\ hits # <<>>
    /\ IgnoreRaises(files)
    /\ spc' = "idle"
    /\ UNCHANGED <<tree, files, clock, todo, hits, log_lines, new_entries,
                   opened, before, report, scans>>
    /\ UNCHANGED mon_vars

\* lines 102-107: the ignore file is read
ReadIgnore ==
    /\ spc = "walk"
    /\ todo = <<>>
    /\ hits # <<>>
    /\ ~IgnoreRaises(files)
    /\ new_entries' = NewEntries(hits, Existing(files))
    /\ spc' = "append"
    /\ UNCHANGED <<tree, files, clock, todo, hits, log_lines, opened, before,
                   report, scans>>
    /\ UNCHANGED mon_vars

\* lines 108-111: the new entries are appended
AppendIgnore ==
    /\ spc = "append"
    /\ IF new_entries # <<>>
       THEN /\ files' = AppendTo(files, ignore_path, WriteLines(new_entries))
            /\ tree' = Listed(tree, files, ignore_path)
       ELSE UNCHANGED <<tree, files>>
    /\ spc' = "log"
    /\ UNCHANGED <<clock, todo, hits, log_lines, new_entries, opened, before,
                   report, scans>>
    /\ UNCHANGED mon_vars

\* another writer (an editor, a second scan of the same folder) appends the
\* path of a file of the folder to the ignore file, at any moment
ExternalAppend ==
    /\ NumLines(IF ignore_path \in DOMAIN files
                THEN files[ignore_path].data ELSE <<>>) < MaxIgnoreLines
    /\ \E p \in DOMAIN files :
          /\ files' = AppendTo(files, ignore_path, RelPath(p) \o <<"\n">>)
          /\ tree' = Listed(tree, files, ignore_path)
    /\ UNCHANGED <<clock, spc, todo, hits, log_lines, new_entries, opened,
                   before, report, scans>>
    /\ UNCHANGED mon_vars

\* lines 114-126: the block is appended to the log and the summary shown
WriteLog ==
    /\ spc = "log"
    /\ files' = AppendTo(files, log_path, WriteLines(<<Header(clock)>> \o log_lines))
    /\ tree' = Listed(tree, files, log_path)
    /\ report' = [kind |-> "Scan complete", lines |-> Len(log_lines),
                  files |-> Len(hits), added |-> Len(new_entries)]
    /\ spc' = "idle"
    /\ UNCHANGED <<clock, todo, hits, log_lines, new_entries, opened, before, scans>>
    /\ UNCHANGED mon_vars

\* local time passes
Tick ==
    /\ clock < MaxClock
    /\ clock' = clock + 1
    /\ UNCHANGED <<tree, files, spc, todo, hits, log_lines, new_entries, opened,
                   before, report, scans>>
    /\ UNCHANGED mon_vars

\* --------------------------------------------- 2. clipboard_loop, actions

\* mutant of MonitorCheck: the loop condition does not read the signal
MonitorCheck_NoStop ==
    /\ mpc = "check"
    /\ mpc' = "paste"
    /\ UNCHANGED <<clipboard, clip, last, stop_evt, toasts, stderr, copies, failures>>
    /\ UNCHANGED scan_vars

\* line 57: while not stop_evt.is_set()
MonitorCheck ==
    /\ mpc = "check"
    /\ mpc' = IF stop_evt THEN "done" ELSE "paste"
    /\ UNCHANGED <<clipboard, clip, last, stop_evt, toasts, stderr, copies, failures>>
    /\ UNCHANGED scan_vars

\* lines 60-62, for the text read: is it new, and does it hold a secret
IsNew(text, lst) == text # <<>> /\ lst # {text}

\* lines 59-62: pyperclip.paste() returns the clipboard's text
PasteOk ==
    /\ mpc = "paste"
    /\ clip' = clipboard
    /\ last' = IF IsNew(clipboard, last) THEN {clipboard} ELSE last
    /\ mpc' = IF IsNew(clipboard, last) /\ contains_secret(clipboard)
              THEN "toast" ELSE "sleep"
    /\ UNCHANGED <<clipboard, stop_evt, toasts, stderr, copies, failures>>
    /\ UNCHANGED scan_vars

\* line 59: pyperclip.paste() raises
PasteFails ==
    /\ mpc = "paste"
    /\ failures < MaxFailures
    /\ failures' = failures + 1
    /\ mpc' = "except"
    /\ UNCHANGED <<clipboard, clip, last, stop_evt, toasts, stderr, copies>>
    /\ UNCHANGED scan_vars

\* lines 63-68: toaster.show_toast(...)
MonitorToast ==
    /\ mpc = "toast"
    /\ toasts' = toasts + 1
    /\ mpc' = "copy"
    /\ UNCHANGED <<clipboard, clip, last, stop_evt, stderr, copies, failures>>
    /\ UNCHANGED scan_vars

\* mutant of CopyOk: the text is written back as it was read
CopyOk_Unredacted ==
    /\ mpc = "copy"
    /\ clipboard' = clip
    /\ mpc' = "sleep"
    /\ UNCHANGED <<clip, last, stop_evt, toasts, stderr, copies, failures>>
    /\ UNCHANGED scan_vars

\* line 69: pyperclip.copy(redact(clip)) sets the clipboard
CopyOk ==
    /\ mpc = "copy"
    /\ clipboard' = redact(clip)
    /\ mpc' = "sleep"
    /\ UNCHANGED <<clip, last, stop_evt, toasts, stderr, copies, failures>>
    /\ UNCHANGED scan_vars

\* line 69: pyperclip.copy(...) raises
CopyFails ==
    /\ mpc = "copy"
    /\ failures < MaxFailures
    /\ failures' = failures + 1
    /\ mpc' = "except"
    /\ UNCHANGED <<clipboard, clip, last, stop_evt, toasts, stderr, copies>>
    /\ UNCHANGED scan_vars

\* mutant of MonitorExcept: the exception is not caught and ends the thread
MonitorExcept_Uncaught ==
    /\ mpc = "except"
    /\ mpc' = "done"
    /\ UNCHANGED <<clipboard, clip, last, stop_evt, toasts, stderr, copies, failures>>
    /\ UNCHANGED scan_vars

\* lines 70-71: except Exception: print("[Clipboard] error:", ...)
MonitorExcept ==
    /\ mpc = "except"
    /\ stderr' = stderr + 1
    /\ mpc' = "sleep"
    /\ UNCHANGED <<clipboard, clip, last, stop_evt, toasts, copies, failures>>
    /\ UNCHANGED scan_vars

\* line 72: time.sleep(0.6)
MonitorSleep ==
    /\ mpc = "sleep"
    /\ mpc' = "check"
    /\ UNCHANGED <<clipboard, clip, last, stop_evt, toasts, stderr, copies, failures>>
    /\ UNCHANGED scan_vars

\* the steps of the watchdog thread
Monitor ==
    \/ MonitorCheck
    \/ PasteOk
    \/ PasteFails
    \/ MonitorToast
    \/ CopyOk
    \/ CopyFails
    \/ MonitorExcept
    \/ MonitorSleep

\* the texts the user copies
ClipTexts ==
    { <<"h", "i">>,
      <<"p", "w", "d", "=", "h", "u", "n", "t", "e", "r", "2">>,
      <<"i", "d", " ", "n", "1", "2", "3", "4", "5", "6", " ", "o", "k">>,
      <<"A", "K", "I", "A", "A", "B", "C", "D", "E", "F", "G", "H", "I", "J", "K", "L", "M", "N", "O", "P">>,
      <<"<", "R", "E", "D", "A", "C", "T", "E", "D", ">">> }

\* the pieces of the texts redact is applied to: a match of each pattern,
\* the placeholder, and what stands between matches
Pieces ==
    { <<"p", "w", "d">>,
      <<"=">>,
      <<" ">>,
      <<"\n">>,
      <<"x">>,
      <<"n", "1", "2", "3", "4", "5", "6">>,
      <<"x", "o", "x", "b", "-", "1", "2", "3", "4", "5", "6", "7", "8", "9", "0">>,
      <<"A", "K", "I", "A", "A", "B", "C", "D", "E", "F", "G", "H", "I", "J", "K", "L", "M", "N", "O", "P">>,
      <<"-", "-", "-", "-", "-", "B", "E", "G", "I", "N", " ", "E", "C", " ", "P", "R", "I", "V", "A", "T", "E", " ", "K", "E", "Y", "-", "-", "-", "-", "-">>,
      <<"s", "s", "h", "-", "r", "s", "a", "A", "A", "A", "A", "A", "A", "A", "A", "A", "A", "A", "A", "A", "A", "A", "A", "A", "A", "A", "A", "A", "A", "A", "A", "A", "A", "A", "A", "A", "A", "A", "A", "A", "A", "A", "A", "A", "A", "A", "A", "A", "A", "A", "A", "A", "A", "A", "A", "A", "A", "A", "A", "A", "A", "A", "A", "A">>,
      <<"<", "R", "E", "D", "A", "C", "T", "E", "D", ">">> }

\* the texts of at most n pieces
RECURSIVE Texts(_)
Texts(n) ==
    IF n = 0 THEN {<<>>}
    ELSE Texts(n - 1) \cup {t \o p : t \in Texts(n - 1), p \in Pieces}

\* another program (the user) puts a text on the clipboard
UserCopy ==
    /\ copies < MaxCopies
    /\ copies' = copies + 1
    /\ \E t \in ClipTexts : clipboard' = t
    /\ UNCHANGED <<mpc, clip, last, stop_evt, toasts, stderr, failures>>
    /\ UNCHANGED scan_vars

\* lines 146-148: the Quit menu item
quit_app ==
    /\ ~stop_evt
    /\ stop_evt' = TRUE
    /\ UNCHANGED <<clipboard, mpc, clip, last, toasts, stderr, copies, failures>>
    /\ UNCHANGED scan_vars

\* ----------------------------------------------------- scanned folders

Dir(dnames, fnames) == [dnames |-> dnames, fnames |-> fnames]

Project(tr, fl) == [tree |-> tr, files |-> fl]

\* the example of the documentation, and a file with secrets on lines 3 and 7
ProjectExample ==
    Project(
        (<<>> :> Dir(<<<<"s", "r", "c">>>>, <<<<"a", ".", "t", "x", "t">>>>))
            @@ (<<<<"s", "r", "c">>>> :> Dir(<<>>, <<<<"c", "o", "n", "f", "i", "g", ".", "t", "x", "t">>>>)),
        (<<<<"a", ".", "t", "x", "t">>>> :> Plain(<<"o", "n", "e", "\n", "t", "w", "o", "\n", "p", "w", "d", "=", "1", "\n", "\n", "\n", "\n", "k", "e", "y", " ", "n", "1", "2", "3", "4", "5", "6", "\n">>))
            @@ (<<<<"s", "r", "c">>, <<"c", "o", "n", "f", "i", "g", ".", "t", "x", "t">>>> :> Plain(<<"#", " ", "c", "f", "g", "\n", " ", " ", "p", "a", "s", "s", "w", "o", "r", "d", ":", " ", "h", "u", "n", "t", "e", "r", "2", " ", " ", "\n">>)))

\* a secret only in version-control metadata
ProjectGit ==
    Project(
        (<<>> :> Dir(<<<<".", "g", "i", "t">>, <<"s", "r", "c">>>>, <<<<"b">>>>))
            @@ (<<<<".", "g", "i", "t">>>> :> Dir(<<>>, <<<<"c", "o", "n", "f", "i", "g">>>>))
            @@ (<<<<"s", "r", "c">>>> :> Dir(<<>>, <<>>)),
        (<<<<"b">>>> :> Plain(<<"h", "e", "l", "l", "o", "\n">>))
            @@ (<<<<".", "g", "i", "t">>, <<"c", "o", "n", "f", "i", "g">>>> :> Plain(<<"p", "w", "d", "=", "x", "\n">>)))

\* files at the size limit, past it, and files that raise OSError
ProjectBig ==
    Project(
        (<<>> :> Dir(<<>>, <<<<"b", "i", "g">>, <<"m", "a", "x">>, <<"l", "o", "c", "k", "e", "d">>, <<"g", "o", "n", "e">>, <<"t", "o", "r", "n">>, <<"l", "a", "t", "e">>>>)),
        (<<<<"b", "i", "g">>>> :> File(<<"p", "w", "d", "=", "1", "\n">>, MAX_SCAN_BYTES - 5, "none", 0))
            @@ (<<<<"m", "a", "x">>>> :> File(<<"p", "w", "d", "=", "1", "\n">>, MAX_SCAN_BYTES - 6, "none", 0))
            @@ (<<<<"l", "o", "c", "k", "e", "d">>>> :> File(<<"p", "w", "d", "=", "2", "\n">>, 0, "open", 0))
            @@ (<<<<"g", "o", "n", "e">>>> :> File(<<"p", "w", "d", "=", "3", "\n">>, 0, "stat", 0))
            @@ (<<<<"t", "o", "r", "n">>>> :> File(<<"o", "k", "\n", "p", "w", "d", "=", "4", "\n">>, 0, "read", 2))
            @@ (<<<<"l", "a", "t", "e">>>> :> File(<<"p", "w", "d", "=", "5", "\n", "o", "k", "\n">>, 0, "read", 2)))

\* an empty folder
ProjectEmpty == Project((<<>> :> Dir(<<>>, <<>>)), <<>>)

\* nothing secret
ProjectClean ==
    Project(
        (<<>> :> Dir(<<<<"d">>>>, <<<<"r", "e", "a", "d", "m", "e">>>>))
            @@ (<<<<"d">>>> :> Dir(<<>>, <<<<"e">>>>)),
        (<<<<"r", "e", "a", "d", "m", "e">>>> :> Plain(<<"h", "e", "l", "l", "o", "\n", "<", "R", "E", "D", "A", "C", "T", "E", "D", ">", "\n", "p", "w", "d">>))
            @@ (<<<<"d">>, <<"e">>>> :> Plain(<<>>)))

\* an ignore file whose last line has no "\n"
ProjectNoNewline ==
    Project(
        (<<>> :> Dir(<<>>, <<<<".", "c", "o", "p", "i", "l", "o", "t", "i", "g", "n", "o", "r", "e">>, <<"a">>>>)),
        (<<<<".", "c", "o", "p", "i", "l", "o", "t", "i", "g", "n", "o", "r", "e">>>> :> Plain(<<"x">>))
            @@ (<<<<"a">>>> :> Plain(<<"p", "w", "d", "=", "1">>)))

\* a file name that starts with a blank
ProjectBlank ==
    Project(
        (<<>> :> Dir(<<>>, <<<<" ", "a">>>>)),
        (<<<<" ", "a">>>> :> Plain(<<"t", "o", "k", "e", "n", " ", "x", "o", "x", "b", "-", "1", "2", "3", "4", "5", "6", "7", "8", "9", "0", "\n">>)))

\* an ignore file that already lists the matched files; a file with an
\* undecodable byte
ProjectKnown ==
    Project(
        (<<>> :> Dir(<<>>, <<<<".", "c", "o", "p", "i", "l", "o", "t", "i", "g", "n", "o", "r", "e">>, <<"a">>, <<"b">>>>)),
        (<<<<".", "c", "o", "p", "i", "l", "o", "t", "i", "g", "n", "o", "r", "e">>>> :> Plain(<<"a", "\n", "\n", " ", " ", "b", " ", " ", "\n">>))
            @@ (<<<<"a">>>> :> Plain(<<"p">> \o <<BAD>> \o <<"w", "d", "\n">>))
            @@ (<<<<"b">>>> :> Plain(<<"n", "1", "2", "3", "4", "5", "6">>)))

\* an ignore file that cannot be opened for reading
ProjectLocked ==
    Project(
        (<<>> :> Dir(<<>>, <<<<".", "c", "o", "p", "i", "l", "o", "t", "i", "g", "n", "o", "r", "e">>, <<"a">>>>)),
        (<<<<".", "c", "o", "p", "i", "l", "o", "t", "i", "g", "n", "o", "r", "e">>>> :> File(<<"x", "\n">>, 0, "open", 0))
            @@ (<<<<"a">>>> :> Plain(<<"p", "w", "d", "=", "1", "\n">>)))

Projects ==
    { ProjectExample, ProjectGit, ProjectBig, ProjectEmpty, ProjectClean,
      ProjectNoNewline, ProjectBlank, ProjectKnown, ProjectLocked }

\* ------------------------------------------------------- specifications

\* no scan has run
ScanStart ==
    /\ clock = 0
    /\ spc = "idle"
    /\ todo = <<>>
    /\ hits = <<>>
    /\ log_lines = <<>>
    /\ new_entries = <<>>
    /\ opened = {}
    /\ before = files
    /\ report = NoReport
    /\ scans = 0

\* lines 153-160: the watchdog thread starts
MonStart ==
    /\ mpc = "check"
    /\ clip = <<>>
    /\ last = {}
    /\ stop_evt = FALSE
    /\ toasts = 0
    /\ stderr = 0
    /\ copies = 0
    /\ failures = 0

Init ==
    /\ \E p \in Projects : tree = p.tree /\ files = p.files
    /\ ScanStart
    /\ clipboard \in ClipTexts \cup {<<>>}
    /\ MonStart

\* the folder scan, started from the tray menu
Scanner ==
    \/ choose_folder_and_scan
    \/ ScanFile
    \/ ShowNoSecrets
    \/ ReadIgnoreRaises
    \/ ReadIgnore
    \/ AppendIgnore
    \/ WriteLog
    \/ Tick

\* the clipboard and the Quit menu item
Desktop ==
    \/ UserCopy
    \/ quit_app

Next == Scanner \/ Monitor \/ Desktop

Spec == Init /\ [][Next]_vars

\* the folder scan alone: it shares no state with the watchdog thread
ScanInit == Init /\ clipboard = <<>>

ScanSpec == ScanInit /\ [][Scanner]_vars

\* the watchdog thread and the desktop alone
MonInit == Init /\ tree = ProjectEmpty.tree

MonNext == Monitor \/ Desktop

MonSpec == MonInit /\ [][MonNext]_vars

\* the watchdog thread is scheduled again and again: each of its steps
\* (a call that returns or raises, a sleep that ends) is eventually taken
FairMonSpec == MonSpec /\ WF_vars(Monitor)

\* the folder scan while another writer appends to the ignore file
EditSpec == ScanInit /\ [][Scanner \/ ExternalAppend]_vars

\* the watchdog thread alone: nothing else touches the clipboard and the
\* program is not quit
LoopSpec == MonInit /\ [][Monitor]_vars

FairLoopSpec == LoopSpec /\ WF_vars(Monitor)

\* the watchdog thread alone on a clipboard that holds any text put
\* together from the pieces, when no clipboard call raises
TextInit ==
    /\ tree = ProjectEmpty.tree
    /\ files = ProjectEmpty.files
    /\ ScanStart
    /\ clipboard \in Texts(MaxPieces)
    /\ MonStart

QuietLoop ==
    \/ MonitorCheck
    \/ PasteOk
    \/ MonitorToast
    \/ CopyOk
    \/ MonitorSleep

TextSpec == TextInit /\ [][QuietLoop]_vars

\* ==================================================================== claims

\* the walk of the running (or last) scan has visited every file; `before`
\* holds the files as the walk saw them
WalkOver == scans > 0 /\ todo = <<>>

\* the numbers of the lines of a file that contain a secret
MatchingLines(f) ==
    {k \in 1..NumLines(Content(f)) : contains_secret(Lines(Content(f))[k])}

\* the file can be sized, opened and read to its end
Readable(f) == f.err = "none"

\* the log lines of the findings of the file at path p
FindingsOf(p) ==
    {k \in DOMAIN log_lines :
        LitAt(log_lines[k], 1, RelPath(p) \o <<":">>, FALSE)}

\* the places of the file at path p in the matched files
EntriesOf(p) == {k \in DOMAIN hits : hits[k] = RelPath(p)}

\* C1: when the walk is over, every file that was read and has N >= 1
\* matching lines has exactly N findings, one per matching line with that
\* line's number, in line order, and exactly one matched-file entry.
C1_EveryMatchingLineFound ==
    WalkOver =>
        \A p \in DOMAIN before :
            LET f == before[p]
                ls == Lines(Content(f))
            IN  (Readable(f) /\ getsize(f) <= MAX_SCAN_BYTES /\ MatchingLines(f) # {}) =>
                    /\ Cardinality(FindingsOf(p)) = Cardinality(MatchingLines(f))
                    /\ \A k \in MatchingLines(f) :
                          \E j \in FindingsOf(p) :
                              log_lines[j] = FindingLine(RelPath(p), k, ls[k])
                    /\ \A i, j \in FindingsOf(p), ki, kj \in MatchingLines(f) :
                          (/\ log_lines[i] = FindingLine(RelPath(p), ki, ls[ki])
                           /\ log_lines[j] = FindingLine(RelPath(p), kj, ls[kj])
                           /\ ki < kj) => i < j
                    /\ Cardinality(EntriesOf(p)) = 1

\* lines 102-111 run on the files fl with the matched files hs
UpdateAgain(fl, hs) ==
    IF NewEntries(hs, Existing(fl)) # <<>>
    THEN AppendTo(fl, ignore_path, WriteLines(NewEntries(hs, Existing(fl))))
    ELSE fl

\* C2: once the update of the ignore file has run (the scan stands before
\* its log write), a second update with the same matched files has no new
\* entry and leaves the ignore file byte for byte as it is.
C2_SecondUpdateAddsNothing ==
    spc = "log" =>
        /\ NewEntries(hits, Existing(files)) = <<>>
        /\ UpdateAgain(files, hits) = files

\* C3: a scan that finds no matching line reports "No secrets found" and
\* leaves every file as it was when the scan started: neither the ignore
\* file nor the log is created or written.  (No scan writes during its walk.)
C3_NoFindingNoWrite ==
    /\ spc = "walk" => files = before
    /\ (WalkOver /\ log_lines = <<>> /\ spc = "idle") =>
          /\ report.kind = "No secrets found"
          /\ files = before
          /\ ignore_path \in DOMAIN files <=> ignore_path \in DOMAIN before
          /\ log_path \in DOMAIN files <=> log_path \in DOMAIN before

\* C3 witness: a scan that read files and found nothing has ended
C3_Witness ==
    /\ WalkOver
    /\ spc = "idle"
    /\ log_lines = <<>>
    /\ opened # {}
    /\ report.kind = "No secrets found"

\* the path lies inside an excluded directory
InExcluded(p) == \E k \in 1..(Len(p) - 1) : p[k] \in EXCLUDE_DIRS

\* C4: a file inside an excluded directory is never opened and gives no
\* finding and no matched-file entry.
C4_ExcludedNeverScanned ==
    \A p \in DOMAIN before :
        InExcluded(p) =>
            /\ p \notin opened
            /\ FindingsOf(p) = {}
            /\ EntriesOf(p) = {}

\* C5, as claimed: when the walk is over, a file was skipped without being
\* opened exactly when its size exceeds 1,000,000 bytes; a larger file is in
\* no finding and no matched-file entry, and a file of at most 1,000,000
\* bytes with a matching line is in the matched files.
C5_SkippedIffTooLarge ==
    WalkOver =>
        \A p \in DOMAIN before :
            LET f == before[p]
            IN  /\ p \notin opened <=> getsize(f) > MAX_SCAN_BYTES
                /\ getsize(f) > MAX_SCAN_BYTES => FindingsOf(p) = {} /\ EntriesOf(p) = {}
                /\ (getsize(f) <= MAX_SCAN_BYTES /\ MatchingLines(f) # {}) =>
                      EntriesOf(p) # {}

\* C5, amended: when the walk is over, a file whose size query succeeds was
\* skipped without being opened exactly when its size exceeds 1,000,000
\* bytes; a larger file is in no finding and no matched-file entry, and a
\* file of at most 1,000,000 bytes with a matching line that can be opened
\* and read without error is in the findings and the matched files.
C5_SkippedIffTooLargeWhenReadable ==
    WalkOver =>
        \A p \in DOMAIN before :
            LET f == before[p]
            IN  /\ f.err # "stat" => (p \notin opened <=> getsize(f) > MAX_SCAN_BYTES)
                /\ getsize(f) > MAX_SCAN_BYTES => FindingsOf(p) = {} /\ EntriesOf(p) = {}
                /\ (Readable(f) /\ getsize(f) <= MAX_SCAN_BYTES /\ MatchingLines(f) # {}) =>
                      FindingsOf(p) # {} /\ EntriesOf(p) # {}

\* C5 witness: the walk is over; a file of 1,000,001 bytes with a matching
\* line was skipped and one of exactly 1,000,000 bytes is a matched file
C5_Witness ==
    /\ WalkOver
    /\ \E p, q \in DOMAIN before :
          /\ getsize(before[p]) = MAX_SCAN_BYTES + 1
          /\ MatchingLines(before[p]) # {}
          /\ p \notin opened
          /\ EntriesOf(p) = {}
          /\ getsize(before[q]) = MAX_SCAN_BYTES
          /\ q \in opened
          /\ EntriesOf(q) # {}

\* str.rstrip("\n") of a line of a file
Chomp(line) ==
    IF line # <<>> /\ line[Len(line)] = "\n" THEN SubSeq(line, 1, Len(line) - 1)
    ELSE line

\* the lines of the ignore file
IgnoreLines(fl) ==
    IF ignore_path \in DOMAIN fl
    THEN [k \in DOMAIN Lines(fl[ignore_path].data) |->
            Chomp(Lines(fl[ignore_path].data)[k])]
    ELSE <<>>

\* C6: after any sequence of scans, every path occurs at most once as a
\* line of the ignore file.
C6_NoPathTwice ==
    \A i, j \in DOMAIN IgnoreLines(files) :
        (i # j /\ IgnoreLines(files)[i] # <<>>) =>
            IgnoreLines(files)[i] # IgnoreLines(files)[j]

\* a step of the watchdog thread (each moves the thread on)
MonitorStep == mpc' # mpc

\* C7, as claimed: a tick whose clipboard text is new and holds a secret
\* shows the notification and then overwrites the clipboard with the
\* redaction of the text read; any other tick shows nothing and writes
\* nothing.
C7_NotifyThenOverwrite ==
    [][MonitorStep =>
        /\ mpc = "paste" =>
              /\ mpc' = IF IsNew(clipboard, last) /\ contains_secret(clipboard)
                        THEN "toast" ELSE "sleep"
              /\ mpc' = "toast" => clip' = clipboard
        /\ mpc = "toast" => toasts' = toasts + 1 /\ mpc' = "copy" /\ clip' = clip
        /\ mpc = "copy" => clipboard' = redact(clip) /\ mpc' = "sleep"
        /\ mpc # "toast" => toasts' = toasts
        /\ mpc # "copy" => clipboard' = clipboard
    ]_vars

\* C7, amended: a tick whose clipboard read returns a text that is new and
\* holds a secret shows the notification and then calls the clipboard write
\* with the redaction of the text read; the clipboard holds that redaction
\* after the call unless the call raises, and then it is left as it was.  A
\* tick whose read raises, or returns a text that is absent, unchanged or
\* without a secret, shows nothing and writes nothing.
C7_NotifyThenOverwriteUnlessRaise ==
    [][MonitorStep =>
        /\ mpc = "paste" =>
              /\ mpc' \in {"except",
                           IF IsNew(clipboard, last) /\ contains_secret(clipboard)
                           THEN "toast" ELSE "sleep"}
              /\ mpc' = "toast" => clip' = clipboard
        /\ mpc = "toast" => toasts' = toasts + 1 /\ mpc' = "copy" /\ clip' = clip
        /\ mpc = "copy" =>
              \/ clipboard' = redact(clip) /\ mpc' = "sleep"
              \/ clipboard' = clipboard /\ mpc' = "except"
        /\ mpc # "toast" => toasts' = toasts
        /\ mpc # "copy" => clipboard' = clipboard
    ]_vars

\* C7 witness: a tick has shown the notification and replaced a secret text
\* by its redaction
C7_Witness ==
    /\ mpc = "sleep"
    /\ toasts > 0
    /\ contains_secret(clip)
    /\ clipboard = redact(clip)
    /\ clipboard # clip

\* C8: what the monitor's write overwrites is the text the monitor read.
C8_OverwritesWhatItRead ==
    [][(mpc = "copy" /\ mpc' = "sleep") => clipboard = clip]_vars

\* C9: the loop ends only when the stop signal is set; a clipboard call that
\* raised is logged, then the loop sleeps, checks the signal and, when it is
\* not set, polls again.
C9_FailureNeverEndsLoop ==
    /\ [](mpc = "done" => stop_evt)
    /\ [][MonitorStep =>
            /\ mpc = "except" => stderr' = stderr + 1 /\ mpc' = "sleep"
            /\ mpc = "sleep" => mpc' = "check"
            /\ (mpc = "check" /\ ~stop_evt) => mpc' = "paste"
            /\ mpc # "check" => mpc' # "done"
       ]_vars

\* C9 witness: after a logged failure the loop polls again
C9_Witness == stderr > 0 /\ mpc = "paste" /\ ~stop_evt

\* C10: once the stop signal is set the loop ends; the tick that begins
\* with the signal set reads and writes nothing (the loop ends at its
\* check), and an ended loop stays ended.
C10_StopEndsLoop ==
    /\ stop_evt ~> (mpc = "done")
    /\ [][(MonitorStep /\ mpc = "check" /\ stop_evt) => mpc' = "done"]_vars
    /\ [][mpc = "done" => mpc' = "done"]_vars

\* C10 witness: the loop has ended after the signal
C10_Witness == stop_evt /\ mpc = "done"

\* the calls of the walk on the file raised OSError: the size query, or
\* (for a file within the limit) the open, or a read before any line matched
Raised(f) ==
    \/ f.err = "stat"
    \/ /\ getsize(f) <= MAX_SCAN_BYTES
       /\ \/ f.err = "open"
          \/ f.err = "read" /\ FirstHit(f) = 0

\* a scan has ended
ScanEnded == scans > 0 /\ spc = "idle"

\* C11: a scan that has ended has completed, with one of its two reports,
\* whatever files of the tree raise on size query, open or read; the files
\* whose calls raised are in no finding and no matched-file entry; every
\* readable file within the size limit that has a matching line is reported.
C11_UnreadableNeverAborts ==
    /\ ScanEnded => report.kind \in {"No secrets found", "Scan complete"}
    /\ WalkOver =>
          \A p \in DOMAIN before :
              LET f == before[p]
              IN  /\ Raised(f) => FindingsOf(p) = {} /\ EntriesOf(p) = {}
                  /\ (Readable(f) /\ getsize(f) <= MAX_SCAN_BYTES
                          /\ MatchingLines(f) # {}) =>
                        FindingsOf(p) # {} /\ EntriesOf(p) # {}

\* the bytes of the ignore file, none when it does not exist
IgnoreData(fl) == IF ignore_path \in DOMAIN fl THEN fl[ignore_path].data ELSE <<>>

\* the bytes of the log, none when it does not exist
LogData(fl) == IF log_path \in DOMAIN fl THEN fl[log_path].data ELSE <<>>

IsPrefix(s, t) == Len(s) <= Len(t) /\ SubSeq(t, 1, Len(s)) = s

\* C12: across every update the old content of the ignore file is a prefix
\* of the new, and the lines of the file after the update are its lines
\* before, followed by the matched files that were not entries, one per
\* line, in the order of the matched-file list.
C12_OnlyAppendsNewEntries ==
    [][(spc = "append" /\ spc' = "log") =>
          /\ IsPrefix(IgnoreData(files), IgnoreData(files'))
          /\ IgnoreLines(files') =
                IgnoreLines(files) \o NewEntries(hits, Existing(files))
    ]_vars

\* C13: a scan with at least one finding that has ended has appended one
\* block to the log: the log is its content from before the scan, followed
\* by the header line and one line per finding, in the order of the findings.
C13_OneBlockPerScanWithFindings ==
    (ScanEnded /\ log_lines # <<>>) =>
        \E c \in 0..clock :
            LogData(files) =
                LogData(before) \o WriteLines(<<Header(c)>> \o log_lines)

\* C14: redact is idempotent on the text on the clipboard, whatever it is
\* put together from, and a redacted text holds no match of any pattern (the
\* placeholder is matched by no pattern).
C14_RedactIdempotent ==
    /\ redact(redact(clipboard)) = redact(clipboard)
    /\ ~contains_secret(redact(clipboard))
    /\ ~contains_secret(PLACEHOLDER)

\* C14 witness: a text with a secret has been redacted, and the redaction
\* holds placeholders next to what was no match
C14_Witness ==
    /\ contains_secret(clip)
    /\ clipboard = redact(clip)
    /\ clipboard # clip
    /\ clipboard # PLACEHOLDER
    /\ redact(clipboard) = clipboard

\* C15: when the walk of a second or later scan of the folder is over, the
\* tool's own output files are not among the matched files, and the update
\* of that scan has no new entry.
C15_SecondScanAddsNothing ==
    (scans >= 2 /\ WalkOver) =>
        /\ \A k \in DOMAIN hits : hits[k] \notin {IGNORE_NAME, LOG_NAME}
        /\ spc \in {"log", "idle"} => new_entries = <<>>

\* C16: a tick whose clipboard calls return (none has raised so far) and
\* that read a text with a secret ends with no secret on the clipboard.
C16_EveryTickWithSecretRedacts ==
    [][(/\ mpc \in {"paste", "copy"}
        /\ mpc' = "sleep"
        /\ failures = 0
        /\ contains_secret(clip')) => ~contains_secret(clipboard')
    ]_vars

\* C17: with nothing else changing the clipboard and finitely many failing
\* clipboard calls, a text with a secret on the clipboard is eventually
\* replaced by a text without.
C17_SecretEventuallyRedacted ==
    contains_secret(clipboard) ~> ~contains_secret(clipboard)

C19_NoDuplicateUnderConcurrentAppend ==
    [][(spc = "append" /\ spc' = "log") =>
          /\ IsPrefix(IgnoreData(files), IgnoreData(files'))
          /\ \A k \in DOMAIN new_entries : new_entries[k] \notin Existing(files)
    ]_vars

====
